---------------------------- MODULE Spec2Model ----------------------------
(***************************************************************************)
(* Weekly reporting pipeline of shaunyap/reporting-automation.             *)
(*                                                                         *)
(* Two report scripts are modelled step by step:                           *)
(*   "campaign"  src/campaign.py (module-level script, two-level key,      *)
(*               exclusion set, top-N collapse, chart by groupby)          *)
(*   "overview"  src/overview.py main(), which delegates the reshaping to  *)
(*               src/lib/ga_reporter.py process_to_weekly_df               *)
(* and the batch driver src/run_all_reports.py, which imports the report   *)
(* modules and calls their main() one after the other; under the driver    *)
(* src/campaign_performance.py and src/landing_page.py run as well, each   *)
(* with its process_..._data function as one step.                         *)
(*                                                                         *)
(* Representation choices                                                  *)
(*   - a date string "YYYYMMDD" is the triple <<YYYY, MM, DD>> of its      *)
(*     numeric fields; a datetime.date is the triple <<y, m, d>>           *)
(*   - a metric string is a TLA+ string; int() is the table DecimalValue   *)
(*   - a Python dict is an association list in insertion order             *)
(*   - a group key is the sequence key_parts (a one-element sequence       *)
(*     stands for the bare string ga_reporter uses for a single key part)  *)
(*   - a DataFrame is [columns, rows]; a row is [key, cells]; a NaN cell   *)
(*     is a week absent from DOMAIN cells                                  *)
(*   - campaign/channel names of the input are distinct from the           *)
(*     synthetic labels "Others" and "Total"                               *)
(***************************************************************************)
EXTENDS Integers, Sequences, FiniteSets, TLC

VARIABLES
    script,             \* which report script runs (or ran last)
    pc,                 \* position of the run inside the script
    rows,               \* response.rows consumed so far, in order
    pivoted_data,       \* defaultdict(lambda: defaultdict(int))
    df,                 \* the DataFrame `df`
    campaign_totals,    \* index of campaign_totals after sort_values, in order
    top_campaign_names, \* campaign_totals.head(TOP_N).index
    df_for_chart,       \* chart DataFrame
    df_for_table,       \* df_for_table of src/overview.py (src/campaign.py adds the Total row to df)
    error,              \* exception that ended the run, "" if none
    output,             \* what reached stdout / the report file
    today,              \* date.today() as read by src/overview.py
    start_date,         \* start_date of src/overview.py
    end_date,           \* end_date of src/overview.py
    summary_stats,      \* summary_stats of src/overview.py
    driver              \* position and event log of src/run_all_reports.py

vars == <<script, pc, rows, pivoted_data, df, campaign_totals, top_campaign_names,
          df_for_chart, df_for_table, error, output,
          today, start_date, end_date, summary_stats, driver>>

(***************************************************************************)
(* Bounds                                                                  *)
(***************************************************************************)
MaxRows == 3

\* src/campaign.py:103 sets TOP_N = 20; scaled down so that the collapsing
\* branch is taken within MaxRows rows
TOP_N == 2

\* src/campaign.py:91 and src/lib/ga_reporter.py:63 slice all_weeks[:6];
\* scaled down so that the slice drops weeks within MaxRows rows
WINDOW == 2

(***************************************************************************)
(* datetime.date arithmetic (CPython Lib/_pydatetime.py semantics, used by *)
(* datetime.strptime(...).date(), date.weekday(), date - timedelta)        *)
(***************************************************************************)
IsLeapYear(y) == (y % 4 = 0) /\ ((y % 100 # 0) \/ (y % 400 = 0))

DaysInMonth(y, m) ==
    IF m = 2 THEN (IF IsLeapYear(y) THEN 29 ELSE 28)
    ELSE IF m \in {4, 6, 9, 11} THEN 30 ELSE 31

DaysBeforeYear(y) ==
    LET p == y - 1 IN p * 365 + (p \div 4) - (p \div 100) + (p \div 400)

\* _DAYS_BEFORE_MONTH
DAYS_BEFORE_MONTH == <<0, 31, 59, 90, 120, 151, 181, 212, 243, 273, 304, 334>>

\* _days_before_month(year, month)
DaysBeforeMonth(y, m) ==
    DAYS_BEFORE_MONTH[m] + (IF m > 2 /\ IsLeapYear(y) THEN 1 ELSE 0)

ToOrdinal(date) == DaysBeforeYear(date[1]) + DaysBeforeMonth(date[1], date[2]) + date[3]

DI400Y == DaysBeforeYear(401)
DI100Y == DaysBeforeYear(101)
DI4Y == DaysBeforeYear(5)

FromOrdinal(ordinal) ==
    LET n0   == ordinal - 1
        n400 == n0 \div DI400Y
        r400 == n0 % DI400Y
        n100 == r400 \div DI100Y
        r100 == r400 % DI100Y
        n4   == r100 \div DI4Y
        r4   == r100 % DI4Y
        n1   == r4 \div 365
        n    == r4 % 365
        year == n400 * 400 + 1 + n100 * 100 + n4 * 4 + n1
    IN  IF n1 = 4 \/ n100 = 4
        THEN <<year - 1, 12, 31>>
        ELSE LET m0    == (n + 50) \div 32
                 prec0 == DaysBeforeMonth(year, m0)
                 month == IF prec0 > n THEN m0 - 1 ELSE m0
                 prec  == DaysBeforeMonth(year, month)
             IN  <<year, month, n - prec + 1>>

\* date.weekday(): Monday is 0, Sunday is 6
Weekday(date) == (ToOrdinal(date) + 6) % 7

\* date - timedelta(days=k)
MinusDays(date, k) == FromOrdinal(ToOrdinal(date) - k)

\* date + timedelta(days=k)
PlusDays(date, k) == FromOrdinal(ToOrdinal(date) + k)

\* date < date
DateLess(a, b) == ToOrdinal(a) < ToOrdinal(b)

\* datetime.strptime(date_str, "%Y%m%d") accepts the string
ValidDateStr(s) ==
    /\ s[1] >= 1 /\ s[1] <= 9999
    /\ s[2] >= 1 /\ s[2] <= 12
    /\ s[3] >= 1 /\ s[3] <= DaysInMonth(s[1], s[2])

\* datetime.strptime(date_str, "%Y%m%d").date()
Strptime(s) == <<s[1], s[2], s[3]>>

\* int(str) on the metric strings of the model
DecimalValue == [s \in {"0", "1", "2", "3"} |->
                    CASE s = "0" -> 0 [] s = "1" -> 1 [] s = "2" -> 2 [] s = "3" -> 3]

ValidMetricStr(s) == s \in DOMAIN DecimalValue

ParseInt(s) == DecimalValue[s]

DaysSinceSundayMut(current_date) == (Weekday(current_date) + 2) % 7

\* week_start_date of the loop body
DaysSinceSunday(current_date) == (Weekday(current_date) + 1) % 7

WeekStartDate(current_date) == MinusDays(current_date, DaysSinceSunday(current_date))


(***************************************************************************)
(* Python dict as an association list in insertion order                   *)
(***************************************************************************)
HasKey(d, k) == \E i \in 1..Len(d) : d[i].key = k

KeyPos(d, k) == CHOOSE i \in 1..Len(d) : d[i].key = k

Keys(d) == [i \in 1..Len(d) |-> d[i].key]

AddToWeekMut(inner, week, sessions) ==
    IF HasKey(inner, week)
    THEN inner
    ELSE Append(inner, [key |-> week, val |-> 0 + sessions])

\* inner defaultdict(int): d[week] += sessions
AddToWeek(inner, week, sessions) ==
    IF HasKey(inner, week)
    THEN [inner EXCEPT ![KeyPos(inner, week)].val = @ + sessions]
    ELSE Append(inner, [key |-> week, val |-> 0 + sessions])

AccumulateMut(d, key, week, sessions) ==
    IF HasKey(d, key)
    THEN [d EXCEPT ![KeyPos(d, key)].val = AddToWeek(<<>>, week, sessions)]
    ELSE Append(d, [key |-> key, val |-> AddToWeek(<<>>, week, sessions)])

\* pivoted_data[key][week_start_date] += sessions
Accumulate(d, key, week, sessions) ==
    IF HasKey(d, key)
    THEN [d EXCEPT ![KeyPos(d, key)].val = AddToWeek(@, week, sessions)]
    ELSE Append(d, [key |-> key, val |-> AddToWeek(<<>>, week, sessions)])

(***************************************************************************)
(* Per-script configuration of the loop                                    *)
(***************************************************************************)
Scripts == {"campaign", "overview"}

\* key_dimension_indices (1-based)
KeyDimensionIndices(s) == IF s = "campaign" THEN <<1, 2>> ELSE <<1>>

\* date_dimension_index (1-based)
DateDimensionIndex(s) == IF s = "campaign" THEN 3 ELSE 2

\* excluded_campaigns / excluded_values
ExcludedValues(s) ==
    IF s = "campaign"
    THEN {"(direct)", "(organic)", "(referral)", "(not set)"}
    ELSE {}

KeyParts(s, row) ==
    [i \in 1..Len(KeyDimensionIndices(s)) |-> row.dimension_values[KeyDimensionIndices(s)[i]]]

DateStr(s, row) == row.dimension_values[DateDimensionIndex(s)]

IsExcludedMut(s, row) ==
    \E i \in 1..Len(KeyParts(s, row)) : KeyParts(s, row)[i] \in ExcludedValues(s)

\* src/campaign.py:62-63 (campaign); src/lib/ga_reporter.py:42-43 (key_parts[0])
IsExcluded(s, row) == KeyParts(s, row)[1] \in ExcludedValues(s)

\* int(...) or strptime(...) raises ValueError on the row
IsMalformed(s, row) ==
    \/ ~ValidMetricStr(row.metric_value)
    \/ ~ValidDateStr(DateStr(s, row))

\* one pass of the loop body over a row that is neither skipped nor malformed
LoopBody(s, d, row) ==
    LET key             == KeyParts(s, row)
        sessions        == ParseInt(row.metric_value)
        current_date    == Strptime(DateStr(s, row))
        week_start_date == WeekStartDate(current_date)
    IN  Accumulate(d, key, week_start_date, sessions)

(***************************************************************************)
(* Rows the API may return                                                 *)
(***************************************************************************)
Row(dims, metric) == [dimension_values |-> dims, metric_value |-> metric]

\* Sat 2023-12-30, Sat 2024-01-06, Sun 2024-01-07: three different weeks
PipelineDates == {<<2023, 12, 30>>, <<2024, 1, 6>>, <<2024, 1, 7>>}

\* Mon 2024-01-08: the same week as Sun 2024-01-07
SameWeekDate == <<2024, 1, 8>>

CampaignKeys == {<<"Brand", "cpc">>, <<"Brand", "(not set)">>,
                 <<"Email", "cpc">>, <<"Promo", "cpc">>}

\* rows of the campaign request: (sessionCampaignName, sessionSourceMedium, date);
\* one excluded campaign, one date strptime rejects, one metric int() rejects
CampaignRows ==
    {Row(<<k[1], k[2], d>>, "1") : k \in CampaignKeys, d \in PipelineDates}
    \cup {Row(<<k[1], k[2], SameWeekDate>>, "2") : k \in CampaignKeys}
    \cup {Row(<<"(direct)", "(none)", <<2024, 1, 7>>>>, "1"),
          Row(<<"Email", "cpc", <<2024, 2, 30>>>>, "1"),
          Row(<<"Email", "cpc", <<2024, 1, 7>>>>, "n/a")}

\* rows of the overview request: (channel group, date)
OverviewRows ==
    {Row(<<c, d>>, "1") : c \in {"Direct", "Paid Search"}, d \in PipelineDates}
    \cup {Row(<<c, SameWeekDate>>, "2") : c \in {"Direct", "Paid Search"}}
    \cup {Row(<<"Direct", <<2024, 13, 1>>>>, "1"),
          Row(<<"Direct", <<2024, 1, 7>>>>, "")}

PipelineRows(s) == IF s = "campaign" THEN CampaignRows ELSE OverviewRows

(***************************************************************************)
(* The start of a run: the date range and the request                      *)
(***************************************************************************)
\* a date variable that is not assigned
NoDate == <<>>

\* a step that leaves the clock, the date range, the summary and the driver alone
SameInvocation == UNCHANGED <<today, start_date, end_date, summary_stats, driver>>

DaysSinceSaturdayMut(t) == (Weekday(t) + 1) % 7

\* src/overview.py:33 days_since_saturday
DaysSinceSaturday(t) == (Weekday(t) + 2) % 7

\* src/overview.py:34
EndDate(t) == MinusDays(t, DaysSinceSaturday(t))

\* src/overview.py:36 timedelta(days=41)
RANGE_DAYS == 41

\* src/overview.py:36
StartDate(e) == MinusDays(e, RANGE_DAYS)

\* where a run of script s begins: a main() reads the clock first,
\* src/campaign.py goes straight to its request
EntryPoint(s) == IF s = "campaign" THEN "fetch" ELSE "start"

\* src/overview.py:30-36
ComputeDateRange ==
    /\ pc = "start"
    /\ script = "overview"
    /\ end_date' = EndDate(today)
    /\ start_date' = StartDate(end_date')
    /\ pc' = "fetch"
    /\ UNCHANGED <<script, rows, pivoted_data, df, campaign_totals, top_campaign_names,
                   df_for_chart, df_for_table, error, output, today, summary_stats, driver>>

\* the exception client.run_report raises when the request fails
FetchError == "GoogleAPICallError"

AfterFetchMut(ok, continue) ==
    [pc |-> continue, error |-> IF ok THEN "" ELSE FetchError]

\* client.run_report either returns the response or raises; nothing in the
\* scripts catches the exception
AfterFetch(ok, continue) ==
    IF ok THEN [pc |-> continue, error |-> ""]
    ELSE [pc |-> "raised", error |-> FetchError]

\* what follows the request: the weekly scripts loop over response.rows,
\* the other reports hand the response to their process_..._data function
AfterRequest(s) == IF s \in {"campaign", "overview"} THEN "loop" ELSE "process"

\* src/campaign.py:49; src/overview.py:55-57 with src/lib/ga_reporter.py:15-27
RunReport ==
    /\ pc = "fetch"
    /\ \E ok \in BOOLEAN :
         /\ pc' = AfterFetch(ok, AfterRequest(script)).pc
         /\ error' = AfterFetch(ok, AfterRequest(script)).error
    /\ SameInvocation
    /\ UNCHANGED <<script, rows, pivoted_data, df, campaign_totals, top_campaign_names,
                   df_for_chart, df_for_table, output>>

(***************************************************************************)
(* The accumulation loop                                                   *)
(***************************************************************************)
Untouched == UNCHANGED <<script, df, campaign_totals, top_campaign_names,
                         df_for_chart, df_for_table, output,
                         today, start_date, end_date, summary_stats, driver>>

\* src/campaign.py:58-76, src/lib/ga_reporter.py:37-54: one iteration
ConsumeRow(row) ==
    /\ pc = "loop"
    /\ Len(rows) < MaxRows
    /\ rows' = Append(rows, row)
    /\ IF IsExcluded(script, row)
       THEN UNCHANGED <<pivoted_data, pc, error>>
       ELSE IF IsMalformed(script, row)
            THEN /\ pc' = "raised"
                 /\ error' = "ValueError"
                 /\ UNCHANGED pivoted_data
            ELSE /\ pivoted_data' = LoopBody(script, pivoted_data, row)
                 /\ UNCHANGED <<pc, error>>
    /\ Untouched

\* response.rows is exhausted
EndOfRows ==
    /\ pc = "loop"
    /\ pc' = "frame"
    /\ UNCHANGED <<rows, pivoted_data, error>>
    /\ Untouched


(***************************************************************************)
(* Sequence helpers                                                        *)
(***************************************************************************)
Range(seq) == {seq[i] : i \in 1..Len(seq)}

Contains(seq, x) == \E i \in 1..Len(seq) : seq[i] = x

IndexOf(seq, x) == CHOOSE i \in 1..Len(seq) : seq[i] = x

RECURSIVE Dedup(_)
\* first occurrences, in order
Dedup(seq) ==
    IF seq = <<>> THEN <<>>
    ELSE LET init == Dedup(SubSeq(seq, 1, Len(seq) - 1))
             last == seq[Len(seq)]
         IN  IF Contains(init, last) THEN init ELSE Append(init, last)

RECURSIVE Flatten(_)
Flatten(seqs) ==
    IF seqs = <<>> THEN <<>> ELSE Head(seqs) \o Flatten(Tail(seqs))

Take(seq, n) == SubSeq(seq, 1, IF Len(seq) < n THEN Len(seq) ELSE n)

RECURSIVE SumOver(_, _)
\* sum of f[x] over the finite set S
SumOver(f, S) ==
    IF S = {} THEN 0
    ELSE LET x == CHOOSE y \in S : TRUE IN f[x] + SumOver(f, S \ {x})

\* all orderings of a finite set
Orderings(S) ==
    {o \in [1..Cardinality(S) -> S] : \A i, j \in 1..Cardinality(S) : i # j => o[i] # o[j]}

(***************************************************************************)
(* DataFrame                                                               *)
(***************************************************************************)
EmptyFrame == [columns |-> <<>>, rows |-> <<>>]

\* df.empty
IsEmpty(frame) == Len(frame.rows) = 0 \/ Len(frame.columns) = 0

FrameRow(key, cells) == [key |-> key, cells |-> cells]

\* the inner dict of a group as a mapping week -> value
CellsOf(inner) == [w \in Range(Keys(inner)) |-> inner[KeyPos(inner, w)].val]

\* pd.DataFrame.from_dict(pivoted_data, orient='index'): the nested dict is
\* inverted to {week: {key: value}} (columns in order of first appearance),
\* and the index is the union of the columns' keys in order of first appearance
FromDict(d) ==
    LET columns == Dedup(Flatten([i \in 1..Len(d) |-> Keys(d[i].val)]))
        KeysWith(w) == LET Has(k) == HasKey(d[KeyPos(d, k)].val, w)
                       IN  SelectSeq(Keys(d), Has)
        index == Dedup(Flatten([c \in 1..Len(columns) |-> KeysWith(columns[c])]))
    IN  [columns |-> columns,
         rows    |-> [r \in 1..Len(index) |->
                        FrameRow(index[r], CellsOf(d[KeyPos(d, index[r])].val))]]

RECURSIVE SortedDesc(_)
\* sorted(dates, reverse=True) of a set of distinct dates
SortedDesc(S) ==
    IF S = {} THEN <<>>
    ELSE LET max == CHOOSE x \in S : \A y \in S : ~DateLess(x, y)
         IN  <<max>> \o SortedDesc(S \ {max})

SortedWeeksMut(frame) ==
    LET all_weeks == SortedDesc(Range(frame.columns))
    IN  Take([i \in 1..Len(all_weeks) |-> all_weeks[Len(all_weeks) + 1 - i]], WINDOW)

\* sorted(df.columns, reverse=True)[:WINDOW]
SortedWeeks(frame) == Take(SortedDesc(Range(frame.columns)), WINDOW)

SelectWeeksMut(frame, sorted_weeks) ==
    LET HasData(row) == \E w \in Range(sorted_weeks) : w \in DOMAIN row.cells
        kept == SelectSeq(frame.rows, HasData)
    IN  [columns |-> sorted_weeks,
         rows    |-> [r \in 1..Len(kept) |->
                        FrameRow(kept[r].key,
                                 [w \in Range(sorted_weeks) |->
                                     IF w \in DOMAIN kept[r].cells
                                     THEN kept[r].cells[w] ELSE 0])]]

\* df[sorted_weeks].fillna(0).astype(int)
SelectWeeks(frame, sorted_weeks) ==
    [columns |-> sorted_weeks,
     rows    |-> [r \in 1..Len(frame.rows) |->
                    FrameRow(frame.rows[r].key,
                             [w \in Range(sorted_weeks) |->
                                 IF w \in DOMAIN frame.rows[r].cells
                                 THEN frame.rows[r].cells[w] ELSE 0])]]

\* the column-wise sum of the rows at the positions P: df.sum()
ColumnSums(frame, P) ==
    [w \in Range(frame.columns) |->
        SumOver([r \in P |-> frame.rows[r].cells[w]], P)]

\* positions of the rows whose first key part is name
RowsOfGroup(frame, name) == {r \in 1..Len(frame.rows) : frame.rows[r].key[1] = name}

\* get_level_values('Campaign') as a set
GroupNames(frame) == {frame.rows[r].key[1] : r \in 1..Len(frame.rows)}

\* groupby(level='Campaign')[week].sum() of one group
GroupTotal(frame, name, week) == ColumnSums(frame, RowsOfGroup(frame, name))[week]


\* number of levels of df.index: an empty frame has a flat, one-level index
IndexLevels(frame) == IF frame.rows = <<>> THEN 1 ELSE Len(frame.rows[1].key)

\* the names assigned by df.index.names = ['Campaign', 'Source / Medium']
IndexNames == <<"Campaign", "Source / Medium">>

\* code-point order of the names of the model, as groupby(sort=True) sorts them
NameOrder == <<"(direct)", "/", "/pricing", "Brand", "Direct", "Email", "Others",
               "Paid Search", "Promo", "Total">>

NameLess(a, b) == IndexOf(NameOrder, a) < IndexOf(NameOrder, b)

RECURSIVE SortedByName(_)
SortedByName(S) ==
    IF S = {} THEN <<>>
    ELSE LET min == CHOOSE x \in S : \A y \in S : ~NameLess(y, x)
         IN  <<min>> \o SortedByName(S \ {min})

OthersKey == <<"Others", "">>

TotalKey(s) == IF s = "campaign" THEN <<"Total", "">> ELSE <<"Total">>

FilterIsinMut(frame, names) == frame

\* df[df.index.get_level_values('Campaign').isin(names)]
FilterIsin(frame, names) ==
    LET Keep(row) == row.key[1] \in names
    IN  [frame EXCEPT !.rows = SelectSeq(frame.rows, Keep)]

\* df.loc[key, :] = cells on a key that is not in the index: the row is appended
SetNewRow(frame, key, cells) ==
    [frame EXCEPT !.rows = Append(frame.rows, FrameRow(key, cells))]

\* df.reindex(order, level='Campaign'): the rows are grouped in the order of
\* the labels, the rows of one label keep their relative order
ReindexLevel(frame, order) ==
    [frame EXCEPT !.rows =
        Flatten([i \in 1..Len(order) |->
                    LET Is(row) == row.key[1] = order[i]
                    IN  SelectSeq(frame.rows, Is)])]

\* the orders Series.sort_values(ascending=False) may leave the groups in:
\* descending totals, ties in an order the sort algorithm decides
RankOrders(frame, week) ==
    {o \in Orderings(GroupNames(frame)) :
        \A i, j \in 1..Len(o) :
            i < j => GroupTotal(frame, o[i], week) >= GroupTotal(frame, o[j], week)}

CollapseMut(frame, order) ==
    LET top        == Take(order, TOP_N)
        df_top     == FilterIsin(frame, Range(top))
        others_sum == ColumnSums(frame, 1..Len(frame.rows))
        with_other == SetNewRow(df_top, OthersKey, others_sum)
    IN  ReindexLevel(with_other, top \o <<"Others">>)

\* lines 107-124 of src/campaign.py for one outcome `order` of the sort
Collapse(frame, order) ==
    LET top        == Take(order, TOP_N)
        df_top     == FilterIsin(frame, Range(top))
        df_others  == FilterIsin(frame, GroupNames(frame) \ Range(top))
        others_sum == ColumnSums(df_others, 1..Len(df_others.rows))
        with_other == SetNewRow(df_top, OthersKey, others_sum)
    IN  ReindexLevel(with_other, top \o <<"Others">>)

GroupBySumMut(frame) ==
    LET names == SortedByName(GroupNames(frame) \cup {"Total"})
    IN  [columns |-> frame.columns,
         rows    |-> [i \in 1..Len(names) |->
                        FrameRow(<<names[i]>>,
                                 IF names[i] = "Total"
                                 THEN ColumnSums(frame, 1..Len(frame.rows))
                                 ELSE ColumnSums(frame, RowsOfGroup(frame, names[i])))]]

\* df.groupby(level='Campaign').sum()
GroupBySum(frame) ==
    LET names == SortedByName(GroupNames(frame))
    IN  [columns |-> frame.columns,
         rows    |-> [i \in 1..Len(names) |->
                        FrameRow(<<names[i]>>,
                                 ColumnSums(frame, RowsOfGroup(frame, names[i])))]]

WithTotalMut(s, frame) ==
    SetNewRow(frame, TotalKey(s), ColumnSums(frame, 1..(Len(frame.rows) - 1)))

\* df.loc[('Total', ''), :] = df.sum()
WithTotal(s, frame) ==
    SetNewRow(frame, TotalKey(s), ColumnSums(frame, 1..Len(frame.rows)))

\* the row orders df.sort_values(by=week, ascending=False) may produce
SortedFrames(frame, week) ==
    {[frame EXCEPT !.rows = [i \in 1..Len(frame.rows) |-> frame.rows[o[i]]]] :
        o \in {p \in Orderings(1..Len(frame.rows)) :
                \A i, j \in 1..Len(frame.rows) :
                    i < j => frame.rows[p[i]].cells[week] >= frame.rows[p[j]].cells[week]}}

Stdout(out, msg) == [out EXCEPT !.stdout = Append(@, msg)]

\* the message printed when df.empty
NoDataMessage(s) ==
    CASE s = "campaign" -> "No data returned from API."
      [] s = "overview" -> "No overview data returned from API."
      [] s = "campaign_performance" -> "No campaign performance data returned from API."
      [] s = "landing_page" -> "No landing page data returned from API."

(***************************************************************************)
(* The steps after the loop                                                *)
(***************************************************************************)
\* src/campaign.py:79-87; src/lib/ga_reporter.py:56-59 with src/overview.py:66-68
BuildFrame ==
    /\ pc = "frame"
    /\ df' = FromDict(pivoted_data)
    /\ IF script = "campaign" /\ IndexLevels(df') # Len(IndexNames)
       THEN /\ pc' = "raised"
            /\ error' = "ValueError"
            /\ UNCHANGED output
       ELSE IF IsEmpty(df')
            THEN /\ pc' = "exited"
                 /\ output' = Stdout(output, NoDataMessage(script))
                 /\ UNCHANGED error
            ELSE /\ pc' = "window"
                 /\ UNCHANGED <<error, output>>
    /\ SameInvocation
    /\ UNCHANGED <<script, rows, pivoted_data, campaign_totals, top_campaign_names,
                   df_for_chart, df_for_table>>

\* src/campaign.py:89-95; src/lib/ga_reporter.py:61-66
SelectWindow ==
    /\ pc = "window"
    /\ df' = SelectWeeks(df, SortedWeeks(df))
    /\ pc' = "rank"
    /\ SameInvocation
    /\ UNCHANGED <<script, rows, pivoted_data, campaign_totals, top_campaign_names,
                   df_for_chart, df_for_table, error, output>>

\* src/campaign.py:100-124
CollapseTopN ==
    /\ pc = "rank"
    /\ script = "campaign"
    /\ \E order \in RankOrders(df, df.columns[1]) :
        /\ campaign_totals' = order
        /\ IF Len(order) > TOP_N
           THEN /\ top_campaign_names' = Take(order, TOP_N)
                /\ df' = Collapse(df, order)
           ELSE UNCHANGED <<top_campaign_names, df>>
    /\ pc' = "chart"
    /\ SameInvocation
    /\ UNCHANGED <<script, rows, pivoted_data, df_for_chart, df_for_table, error, output>>

\* src/overview.py:72-73
SortChannels ==
    /\ pc = "rank"
    /\ script = "overview"
    /\ df' \in SortedFrames(df, df.columns[1])
    /\ pc' = "total"
    /\ SameInvocation
    /\ UNCHANGED <<script, rows, pivoted_data, campaign_totals, top_campaign_names,
                   df_for_chart, df_for_table, error, output>>

\* src/campaign.py:127; src/overview.py:80-81
ChartView ==
    /\ pc = "chart"
    /\ df_for_chart' = IF script = "campaign" THEN GroupBySum(df) ELSE df
    /\ pc' = IF script = "campaign" THEN "total" ELSE "summary"
    /\ SameInvocation
    /\ UNCHANGED <<script, rows, pivoted_data, df, campaign_totals, top_campaign_names,
                   df_for_table, error, output>>

\* src/campaign.py:130; src/overview.py:76-77
AddTotal ==
    /\ pc = "total"
    /\ IF script = "campaign"
       THEN /\ df' = WithTotal(script, df)
            /\ pc' = "write"
            /\ UNCHANGED df_for_table
       ELSE /\ df_for_table' = WithTotal(script, df)
            /\ pc' = "chart"
            /\ UNCHANGED df
    /\ SameInvocation
    /\ UNCHANGED <<script, rows, pivoted_data, campaign_totals, top_campaign_names,
                   df_for_chart, error, output>>

\* rows of the two summary requests of src/overview.py (no dimensions): the
\* metric values of the single row, or no row at all; one value int() rejects
SummaryResponses == {<<>>, << <<"3", "2", "1">> >>, << <<"3", "n/a", "1">> >>}

MtdResponses == {<<>>, << <<"3", "2">> >>, << <<"", "2">> >>}

\* the keys of summary_stats in the order the script assigns them
SummaryKeys == <<"active_users", "engaged_sessions", "key_events">>

MtdKeys == <<"mtd_active_users", "mtd_engaged_sessions">>

\* summary_stats[keys[i]] = 0 for each key
ZeroStats(stats, keys) ==
    [k \in DOMAIN stats \cup Range(keys) |->
        IF k \in Range(keys) THEN 0 ELSE stats[k]]

\* the number of leading values int() accepts
RECURSIVE ParsedPrefix(_)
ParsedPrefix(values) ==
    IF values = <<>> \/ ~ValidMetricStr(Head(values)) THEN 0
    ELSE 1 + ParsedPrefix(Tail(values))

\* summary_stats[keys[i]] = int(values[i]) one after the other, up to the
\* first value int() rejects
AssignStats(stats, keys, values) ==
    LET n == ParsedPrefix(values)
    IN  [k \in DOMAIN stats |->
            IF \E i \in 1..n : keys[i] = k
            THEN ParseInt(values[CHOOSE i \in 1..n : keys[i] = k])
            ELSE stats[k]]

\* the request, the zero defaults and the int() assignments of one summary
SummaryStep(here, continue, keys, responses) ==
    /\ pc = here
    /\ \E ok \in BOOLEAN, response \in responses :
         LET after  == AfterFetch(ok, continue)
             zeroed == ZeroStats(summary_stats, keys)
         IN  IF ~ok
             THEN /\ pc' = after.pc
                  /\ error' = after.error
                  /\ UNCHANGED summary_stats
             ELSE IF response = <<>>
                  THEN /\ summary_stats' = zeroed
                       /\ pc' = after.pc
                       /\ error' = after.error
                  ELSE /\ summary_stats' = AssignStats(zeroed, keys, response[1])
                       /\ IF ParsedPrefix(response[1]) = Len(keys)
                          THEN /\ pc' = after.pc
                               /\ error' = after.error
                          ELSE /\ pc' = "raised"
                               /\ error' = "ValueError"
    /\ UNCHANGED <<script, rows, pivoted_data, df, campaign_totals, top_campaign_names,
                   df_for_chart, df_for_table, output, today, start_date, end_date,
                   driver>>

\* src/overview.py:84-108
FetchSummary ==
    /\ script = "overview"
    /\ SummaryStep("summary", "mtd", SummaryKeys, SummaryResponses)

\* src/overview.py:111-135
FetchMtd ==
    /\ script = "overview"
    /\ SummaryStep("mtd", "write", MtdKeys, MtdResponses)

\* src/campaign.py:169-209; src/overview.py:138-140, 175-238
WriteReport ==
    /\ pc = "write"
    /\ output' = [Stdout(output, "Report successfully generated") EXCEPT !.written = TRUE]
    /\ pc' = "done"
    /\ SameInvocation
    /\ UNCHANGED <<script, rows, pivoted_data, df, campaign_totals, top_campaign_names,
                   df_for_chart, df_for_table, error>>

(***************************************************************************)
(* Specification of one report run                                         *)
(***************************************************************************)
\* the clock of the modelled runs: Sat 2024-01-13 and Wed 2024-01-17, both
\* after every date of the rows; src/campaign.py never reads the clock
Todays(s) == IF s = "overview" THEN {<<2024, 1, 13>>, <<2024, 1, 17>>} ELSE {NoDate}

\* a script run on its own, not under src/run_all_reports.py
Standalone == [phase |-> "standalone", step |-> 0, log |-> <<>>]

Init ==
    /\ script \in Scripts
    /\ pc = EntryPoint(script)
    /\ today \in Todays(script)
    /\ start_date = NoDate
    /\ end_date = NoDate
    /\ summary_stats = <<>>
    /\ driver = Standalone
    /\ rows = <<>>
    /\ pivoted_data = <<>>
    /\ df = EmptyFrame
    /\ campaign_totals = <<>>
    /\ top_campaign_names = <<>>
    /\ df_for_chart = EmptyFrame
    /\ df_for_table = EmptyFrame
    /\ error = ""
    /\ output = [stdout |-> <<>>, written |-> FALSE]

Next ==
    \/ ComputeDateRange
    \/ RunReport
    \/ \E row \in PipelineRows(script) : ConsumeRow(row)
    \/ EndOfRows
    \/ BuildFrame
    \/ SelectWindow
    \/ CollapseTopN
    \/ SortChannels
    \/ ChartView
    \/ AddTotal
    \/ FetchSummary
    \/ FetchMtd
    \/ WriteReport

Spec == Init /\ [][Next]_vars


(***************************************************************************)
(* Specification of the week bucketing: one row of any date string of two  *)
(* years (a leap year included) goes through the loop body                 *)
(***************************************************************************)
BucketYears == {2023, 2024}

BucketDateStrs == {<<y, m, d>> : y \in BucketYears, m \in 1..12, d \in 1..31}

BucketRows(s) ==
    IF s = "campaign"
    THEN {Row(<<"Brand", "cpc", d>>, "1") : d \in BucketDateStrs}
    ELSE {Row(<<"Direct", d>>, "1") : d \in BucketDateStrs}

NextDates ==
    \/ ComputeDateRange
    \/ RunReport
    \/ rows = <<>> /\ \E row \in BucketRows(script) : ConsumeRow(row)
    \/ EndOfRows

SpecDates == Init /\ [][NextDates]_vars

(***************************************************************************)
(* Specification of the aggregation: the loop alone, over rows that share  *)
(* groups and weeks and differ in their values                             *)
(***************************************************************************)
AggDates == {<<2024, 1, 6>>, <<2024, 1, 7>>, <<2024, 1, 8>>}

AggRows(s) ==
    IF s = "campaign"
    THEN {Row(<<c, "cpc", d>>, "1") : c \in {"Brand", "Email"}, d \in AggDates}
         \cup {Row(<<"Brand", "cpc", d>>, "2") : d \in {<<2024, 1, 7>>, <<2024, 1, 8>>}}
         \cup {Row(<<"Brand", "(not set)", <<2024, 1, 7>>>>, "3"),
               Row(<<"(direct)", "(none)", <<2024, 1, 7>>>>, "1"),
               Row(<<"(not set)", "cpc", <<2024, 1, 8>>>>, "2")}
    ELSE {Row(<<c, d>>, "1") :
            c \in {"Direct", "Paid Search"}, d \in {<<2024, 1, 7>>, <<2024, 1, 8>>}}
         \cup {Row(<<"Direct", d>>, "2") : d \in {<<2024, 1, 6>>, <<2024, 1, 7>>}}

NextAgg ==
    \/ ComputeDateRange
    \/ RunReport
    \/ \E row \in AggRows(script) : ConsumeRow(row)
    \/ EndOfRows

SpecAgg == Init /\ [][NextAgg]_vars

(***************************************************************************)
(* Properties                                                              *)
(***************************************************************************)
\* the rows consumed so far that the loop did not skip
KeptRows == {i \in 1..Len(rows) : ~IsExcluded(script, rows[i])}

\* no consumed row made int() or strptime() raise
NoMalformedRow == \A i \in KeptRows : ~IsMalformed(script, rows[i])

\* the loop has run to the end of response.rows
LoopDone == pc \notin {"start", "fetch", "loop"} /\ NoMalformedRow

\* date D lies in the seven days that start at date B
InWeekOf(D, B) == ~DateLess(D, B) /\ DateLess(D, PlusDays(B, 7))

\* the week keys of pivoted_data
WeekKeys == UNION {Range(Keys(pivoted_data[i].val)) : i \in 1..Len(pivoted_data)}

\* C1: the week key the loop files a date under is a Sunday, is not after the
\* date and is less than seven days before it; a Saturday is filed under the
\* Sunday six days earlier (20240106 under 2023-12-31), a Sunday under itself
C1_WeekKeyIsContainingSunday ==
    (Len(rows) = 1 /\ Len(pivoted_data) = 1) =>
        LET D == Strptime(DateStr(script, rows[1]))
            B == pivoted_data[1].val[1].key
        IN  /\ Weekday(B) = 6
            /\ InWeekOf(D, B)
            /\ (Weekday(D) = 5 => B = MinusDays(D, 6))
            /\ (Weekday(D) = 6 => B = D)
            /\ (D = <<2024, 1, 6>> => B = <<2023, 12, 31>>)

C1_Witness ==
    /\ Len(rows) = 1 /\ Len(pivoted_data) = 1
    /\ DateStr(script, rows[1]) = <<2024, 1, 6>>
    /\ pivoted_data[1].val[1].key = <<2023, 12, 31>>


\* the group -> week -> value table a dict holds, insertion order dropped
AsMapping(d) == [k \in Range(Keys(d)) |-> CellsOf(d[KeyPos(d, k)].val)]

RECURSIVE RunLoop(_, _, _)
\* the accumulation loop over the row sequence seq, started on the dict d
RunLoop(s, d, seq) ==
    IF seq = <<>> THEN d
    ELSE RunLoop(s,
                 IF IsExcluded(s, Head(seq)) THEN d ELSE LoopBody(s, d, Head(seq)),
                 Tail(seq))

\* C2: the loop run over any permutation of the consumed rows yields the
\* table the loop has built: the same keys and the same cell values
C2_OrderIndependent ==
    NoMalformedRow =>
        \A p \in Orderings(1..Len(rows)) :
            AsMapping(RunLoop(script, <<>>, [i \in 1..Len(rows) |-> rows[p[i]]]))
                = AsMapping(pivoted_data)

\* two rows of one group and one week with different values, then a third row
C2_Witness ==
    /\ pc = "frame"
    /\ Len(rows) = 3
    /\ \E i, j \in KeptRows :
        /\ i # j
        /\ KeyParts(script, rows[i]) = KeyParts(script, rows[j])
        /\ rows[i].metric_value # rows[j].metric_value
        /\ ValidMetricStr(rows[i].metric_value) /\ ValidMetricStr(rows[j].metric_value)
        /\ ValidDateStr(DateStr(script, rows[i])) /\ ValidDateStr(DateStr(script, rows[j]))
        /\ WeekStartDate(Strptime(DateStr(script, rows[i])))
             = WeekStartDate(Strptime(DateStr(script, rows[j])))
    /\ NoMalformedRow

\* the consumed, non-excluded rows of group key g whose date lies in week w
Contributors(g, w) ==
    {i \in KeptRows : /\ KeyParts(script, rows[i]) = g
                      /\ InWeekOf(Strptime(DateStr(script, rows[i])), w)}

\* C3: once the loop is through, every cell of the table is the sum of the
\* metric values of the non-excluded rows of its group and week, every such
\* row has its cell, and no cell is without a contributing row
C3_CellsAreSumsOfContributors ==
    LoopDone =>
        /\ \A g \in DOMAIN AsMapping(pivoted_data) :
             \A w \in DOMAIN AsMapping(pivoted_data)[g] :
                /\ Contributors(g, w) # {}
                /\ AsMapping(pivoted_data)[g][w]
                     = SumOver([i \in Contributors(g, w) |-> ParseInt(rows[i].metric_value)],
                               Contributors(g, w))
        /\ \A i \in KeptRows :
             /\ KeyParts(script, rows[i]) \in DOMAIN AsMapping(pivoted_data)
             /\ \E w \in DOMAIN AsMapping(pivoted_data)[KeyParts(script, rows[i])] :
                    i \in Contributors(KeyParts(script, rows[i]), w)
        /\ \A i, j \in 1..Len(pivoted_data) : i # j => pivoted_data[i].key # pivoted_data[j].key

\* rows (Brand, Sun 7 Jan, 1), (Brand, Mon 8 Jan, 2), (Email, Sun 7 Jan, 1)
\* give Brand: {2024-01-07: 3}, Email: {2024-01-07: 1}
C3_Witness ==
    /\ script = "campaign"
    /\ pc = "frame"
    /\ rows = <<Row(<<"Brand", "cpc", <<2024, 1, 7>>>>, "1"),
                Row(<<"Brand", "cpc", <<2024, 1, 8>>>>, "2"),
                Row(<<"Email", "cpc", <<2024, 1, 7>>>>, "1")>>
    /\ AsMapping(pivoted_data) =
         (<<"Brand", "cpc">> :> (<<2024, 1, 7>> :> 3)) @@
         (<<"Email", "cpc">> :> (<<2024, 1, 7>> :> 1))

Min(a, b) == IF a < b THEN a ELSE b

\* the window selection has run
Windowed == pc \in {"rank", "chart", "total", "summary", "mtd", "write", "done"}

\* C4: the columns after the window selection are the min(WINDOW, k) most
\* recent of the k week keys of the table, most recent first, and every
\* column is a week key of the table
C4_WindowIsMostRecentWeeks ==
    Windowed =>
        /\ Len(df.columns) = Min(WINDOW, Cardinality(WeekKeys))
        /\ \A i, j \in 1..Len(df.columns) : i < j => DateLess(df.columns[j], df.columns[i])
        /\ Range(df.columns) \subseteq WeekKeys
        /\ \A w \in WeekKeys \ Range(df.columns) :
             \A c \in Range(df.columns) : DateLess(w, c)

\* more weeks than the window holds: the oldest is dropped
C4_Witness ==
    /\ pc = "rank"
    /\ Cardinality(WeekKeys) > WINDOW
    /\ Len(df.columns) = WINDOW


\* C5: a run whose loop ends on an empty table stops without an exception,
\* prints the no-data message and writes no report; the frame stays empty
C5_NoDataExitsGracefully ==
    (LoopDone /\ pivoted_data = <<>>) =>
        /\ pc \in {"frame", "exited"}
        /\ error = ""
        /\ ~output.written
        /\ IsEmpty(df)
        /\ (pc = "exited" => Contains(output.stdout, NoDataMessage(script)))

\* the windowed frame the ranking step starts from
WindowedFrame ==
    SelectWeeks(FromDict(pivoted_data), SortedWeeks(FromDict(pivoted_data)))

\* the first key parts of the rows of a frame, in order of first appearance
GroupOrder(frame) == Dedup([r \in 1..Len(frame.rows) |-> frame.rows[r].key[1]])

\* C6: with at most TOP_N campaigns the frame after the collapsing step is
\* the windowed frame and has no "Others" row; with more, its last row is
\* the only ("Others", "") row, the other rows are the unchanged rows of
\* TOP_N campaigns that no dropped campaign outranks in the anchor week, and
\* the "Others" row is the column-wise sum of the rows of the dropped campaigns
C6_TopNCollapse ==
    (script = "campaign" /\ pc = "chart") =>
        LET W      == WindowedFrame
            anchor == W.columns[1]
            names  == GroupNames(W)
            n      == Len(df.rows)
            kept   == GroupNames(df) \ {"Others"}
            keptW  == {r \in 1..Len(W.rows) : W.rows[r].key[1] \in kept}
        IN  IF Cardinality(names) <= TOP_N
            THEN /\ df = W
                 /\ \A r \in 1..n : df.rows[r].key[1] # "Others"
            ELSE /\ df.columns = W.columns
                 /\ df.rows[n].key = OthersKey
                 /\ \A r \in 1..(n - 1) : df.rows[r].key[1] # "Others"
                 /\ kept \subseteq names
                 /\ Cardinality(kept) = TOP_N
                 /\ \A a \in kept : \A b \in names \ kept :
                        GroupTotal(W, a, anchor) >= GroupTotal(W, b, anchor)
                 /\ df.rows[n].cells = ColumnSums(W, (1..Len(W.rows)) \ keptW)
                 /\ {df.rows[r] : r \in 1..(n - 1)} = {W.rows[r] : r \in keptW}
                 /\ n - 1 = Cardinality(keptW)

\* more than TOP_N campaigns, and the dropped one had sessions in the window
C6_Witness ==
    /\ script = "campaign"
    /\ pc = "chart"
    /\ Cardinality(GroupNames(WindowedFrame)) > TOP_N
    /\ df.rows[Len(df.rows)].key = OthersKey
    /\ \E w \in Range(df.columns) : df.rows[Len(df.rows)].cells[w] > 0

\* the ranking step of the script has run and nothing was added to df since
Ranked == \/ script = "campaign" /\ pc = "chart"
          \/ script = "overview" /\ pc = "total"

\* C7: after the ranking step the top-level groups appear in descending
\* order of their anchor-week totals, "Others" last whatever its value
C7_GroupsInRankOrder ==
    Ranked =>
        LET order  == GroupOrder(df)
            anchor == df.columns[1]
        IN  /\ \A i, j \in 1..Len(order) :
                 (i < j /\ order[i] # "Others" /\ order[j] # "Others") =>
                    GroupTotal(df, order[i], anchor) >= GroupTotal(df, order[j], anchor)
            /\ (Contains(order, "Others") => order[Len(order)] = "Others")

\* the frame that is rendered as the table
TableView == IF script = "campaign" THEN df ELSE df_for_table

\* the Total row has been added
TotalAdded == \/ script = "campaign" /\ pc \in {"write", "done"}
              \/ script = "overview" /\ pc \in {"chart", "summary", "mtd", "write", "done"}

\* C8: the Total row is the last row of the table view, the only one keyed
\* Total, and in every column the sum of all the other rows
C8_TotalRowLastAndSum ==
    TotalAdded =>
        LET n == Len(TableView.rows)
        IN  /\ n >= 2
            /\ TableView.rows[n].key = TotalKey(script)
            /\ \A r \in 1..(n - 1) : TableView.rows[r].key[1] # "Total"
            /\ TableView.rows[n].cells = ColumnSums(TableView, 1..(n - 1))

\* a table with an "Others" row whose sessions the Total row counts
C8_Witness ==
    /\ script = "campaign"
    /\ pc = "write"
    /\ \E r \in 1..Len(df.rows) :
         /\ df.rows[r].key = OthersKey
         /\ df.rows[r].cells[df.columns[1]] > 0
    /\ df.rows[Len(df.rows)].key = TotalKey(script)
    /\ df.rows[Len(df.rows)].cells[df.columns[1]] >= 2

\* the chart frame has been built
ChartBuilt == \/ script = "campaign" /\ pc \in {"total", "write", "done"}
              \/ script = "overview" /\ pc \in {"summary", "mtd", "write", "done"}

\* the collapsed table: df without the Total row that src/campaign.py adds to it
CollapsedTable ==
    IF script = "campaign" /\ pc \in {"write", "done"}
    THEN [df EXCEPT !.rows = SubSeq(df.rows, 1, Len(df.rows) - 1)]
    ELSE df

\* C9: the chart view has no Total row and no second-level key, has one row
\* for each top-level group of the collapsed table, each the column-wise sum
\* of the rows of its group, and stays so when the Total row is added
C9_ChartOneRowPerGroup ==
    ChartBuilt =>
        LET C == CollapsedTable
        IN  /\ df_for_chart.columns = C.columns
            /\ \A r \in 1..Len(df_for_chart.rows) :
                 /\ Len(df_for_chart.rows[r].key) = 1
                 /\ df_for_chart.rows[r].key[1] # "Total"
                 /\ df_for_chart.rows[r].cells
                      = ColumnSums(C, RowsOfGroup(C, df_for_chart.rows[r].key[1]))
            /\ GroupNames(df_for_chart) = GroupNames(C)
            /\ Len(df_for_chart.rows) = Cardinality(GroupNames(C))

\* a campaign with two source/medium rows is one chart row, Total row added
C9_Witness ==
    /\ script = "campaign"
    /\ pc = "write"
    /\ \E name \in GroupNames(df) : Cardinality(RowsOfGroup(df, name)) = 2
    /\ df.rows[Len(df.rows)].key = TotalKey(script)
    /\ Len(df_for_chart.rows) = Len(df.rows) - 2

\* C10: the rows of the chart view are in the order of the top-level groups
\* of the collapsed table
C10_ChartKeepsOrder ==
    ChartBuilt => GroupOrder(df_for_chart) = GroupOrder(CollapsedTable)

\* C12: a run in which a request failed or int()/strptime() rejected a value
\* of a row that is not excluded has stopped with the exception and has
\* written no report file; the file is written only after every request and
\* every row went through
C12_AllOrNothing ==
    /\ (error # "" \/ ~NoMalformedRow) => (pc = "raised" /\ ~output.written)
    /\ output.written =>
         /\ pc = "done"
         /\ error = ""
         /\ NoMalformedRow
         /\ AsMapping(pivoted_data) = AsMapping(RunLoop(script, <<>>, rows))
         /\ (script = "overview" =>
                DOMAIN summary_stats = Range(SummaryKeys) \cup Range(MtdKeys))

\* the table and the chart of the overview are built when the request of a
\* summary fails: the run stops and nothing is written
C12_Witness ==
    /\ script = "overview"
    /\ pc = "raised"
    /\ error = FetchError
    /\ Len(df_for_table.rows) >= 2
    /\ Len(df_for_chart.rows) >= 1
    /\ DOMAIN summary_stats = Range(SummaryKeys)
    /\ ~output.written

\* the consumed rows whose first key component is outside the excluded set
FirstPartKept ==
    {i \in 1..Len(rows) :
        rows[i].dimension_values[KeyDimensionIndices(script)[1]]
            \notin ExcludedValues(script)}

\* the sum of the cells of group g of the table
TableTotal(g) ==
    LET cells == AsMapping(pivoted_data)[g] IN SumOver(cells, DOMAIN cells)

\* C13: the loop drops a row exactly when the first component of its key is
\* in the excluded set: the groups of the table are the keys of the rows
\* whose first component is not excluded, whatever their later components,
\* and each group holds the sum of the values of all those rows
C13_DropsOnFirstComponentOnly ==
    (\A i \in FirstPartKept : ~IsMalformed(script, rows[i])) =>
        /\ Range(Keys(pivoted_data)) = {KeyParts(script, rows[i]) : i \in FirstPartKept}
        /\ \A g \in Range(Keys(pivoted_data)) :
             LET of_g == {i \in FirstPartKept : KeyParts(script, rows[i]) = g}
             IN  TableTotal(g)
                   = SumOver([i \in of_g |-> ParseInt(rows[i].metric_value)], of_g)

\* a row with an excluded source/medium under a campaign that is not excluded
\* is the only group of the table, next to a row of an excluded campaign
C13_Witness ==
    /\ script = "campaign"
    /\ pc = "frame"
    /\ \E i, j \in 1..Len(rows) :
         /\ rows[i].dimension_values[1] \notin ExcludedValues(script)
         /\ rows[i].dimension_values[2] \in ExcludedValues(script)
         /\ rows[j].dimension_values[1] \in ExcludedValues(script)
         /\ Keys(pivoted_data) = <<KeyParts(script, rows[i])>>
         /\ TableTotal(KeyParts(script, rows[i])) = ParseInt(rows[i].metric_value)

\* C16: right after the window selection the frame has one row for every
\* group key of the table, a group without data in the selected weeks
\* included, and every cell is the sum of the values of the rows of its
\* group and week, 0 when there is no such row
C16_WindowKeepsGroupsZeroFills ==
    pc = "rank" =>
        /\ Len(df.rows) = Len(pivoted_data)
        /\ {df.rows[r].key : r \in 1..Len(df.rows)} = Range(Keys(pivoted_data))
        /\ \A r \in 1..Len(df.rows) :
             /\ DOMAIN df.rows[r].cells = Range(df.columns)
             /\ \A w \in Range(df.columns) :
                  LET from == Contributors(df.rows[r].key, w)
                  IN  df.rows[r].cells[w] =
                        IF from = {} THEN 0
                        ELSE SumOver([i \in from |-> ParseInt(rows[i].metric_value)], from)

\* a group whose only row is older than the window is an all-zero row next
\* to a group with sessions in both selected weeks
C16_Witness ==
    /\ pc = "rank"
    /\ Cardinality(WeekKeys) > WINDOW
    /\ \E r, q \in 1..Len(df.rows) :
         /\ \A w \in Range(df.columns) : df.rows[r].cells[w] = 0
         /\ \A w \in Range(df.columns) : df.rows[q].cells[w] > 0

\* C17: once the chart view and the Total row exist, in every selected week
\* the Total row of the table view, the column sum of the chart view and the
\* column sum of the windowed frame before the collapsing step are equal
C17_ColumnSumsConserved ==
    (TotalAdded /\ ChartBuilt) =>
        LET W == WindowedFrame
            n == Len(TableView.rows)
        IN  /\ TableView.columns = W.columns
            /\ df_for_chart.columns = W.columns
            /\ \A w \in Range(W.columns) :
                 /\ TableView.rows[n].cells[w]
                      = ColumnSums(W, 1..Len(W.rows))[w]
                 /\ ColumnSums(df_for_chart, 1..Len(df_for_chart.rows))[w]
                      = ColumnSums(W, 1..Len(W.rows))[w]

\* three campaigns with sessions in the anchor week: one of them is folded
\* into an "Others" row that carries sessions, and the table is complete
C17_Witness ==
    /\ script = "campaign"
    /\ pc = "write"
    /\ Cardinality(GroupNames(WindowedFrame)) > TOP_N
    /\ \E r \in 1..Len(df.rows) :
         /\ df.rows[r].key = OthersKey
         /\ df.rows[r].cells[df.columns[1]] > 0
    /\ df.rows[Len(df.rows)].key = TotalKey(script)
    /\ df.rows[Len(df.rows)].cells[df.columns[1]] = 3

(***************************************************************************)
(* Specification of the date range of src/overview.py: main() started on   *)
(* any day of two years, then one row dated inside the requested range     *)
(***************************************************************************)
\* src/lib/ga_reporter.py:63 slices all_weeks[:6]; WINDOW stands for this
\* slice length in the runs of the window selection
ALL_WEEKS_SLICE == 6

\* the days the clock may show
ClockDates == {Strptime(t) : t \in {u \in BucketDateStrs : ValidDateStr(u)}}

\* the dates from start_date to end_date, both included
RangeDates == {PlusDays(start_date, k) : k \in 0..RANGE_DAYS}

InitRange ==
    /\ script = "overview"
    /\ pc = EntryPoint(script)
    /\ today \in ClockDates
    /\ start_date = NoDate
    /\ end_date = NoDate
    /\ summary_stats = <<>>
    /\ driver = Standalone
    /\ rows = <<>>
    /\ pivoted_data = <<>>
    /\ df = EmptyFrame
    /\ campaign_totals = <<>>
    /\ top_campaign_names = <<>>
    /\ df_for_chart = EmptyFrame
    /\ df_for_table = EmptyFrame
    /\ error = ""
    /\ output = [stdout |-> <<>>, written |-> FALSE]

NextRange ==
    \/ ComputeDateRange
    \/ RunReport
    \/ rows = <<>> /\ pc = "loop" /\ \E d \in RangeDates : ConsumeRow(Row(<<"Direct", d>>, "1"))

SpecRange == InitRange /\ [][NextRange]_vars

\* C18: whatever the day main() runs on, end_date is the Saturday of the
\* last seven days (today included), start_date is the Sunday 41 days before
\* it, the range is six whole Sunday-to-Saturday weeks, and its dates are
\* filed by the loop under six week keys, no more than the slice keeps
C18_RangeIsSixWholeWeeks ==
    (script = "overview" /\ end_date # NoDate) =>
        LET sundays == {PlusDays(start_date, 7 * k) : k \in 0..5}
        IN  /\ Weekday(end_date) = 5
            /\ ~DateLess(today, end_date)
            /\ DateLess(today, PlusDays(end_date, 7))
            /\ Weekday(start_date) = 6
            /\ start_date = MinusDays(end_date, 41)
            /\ PlusDays(end_date, 1) = PlusDays(start_date, 6 * 7)
            /\ \A s \in sundays : Weekday(s) = 6
            /\ {WeekStartDate(d) : d \in RangeDates} = sundays
            /\ Cardinality({WeekStartDate(d) : d \in RangeDates}) <= ALL_WEEKS_SLICE
            /\ WeekKeys \subseteq sundays

\* a run on Friday 2024-03-08: the range 2024-01-21 .. 2024-03-02 spans the
\* leap day, and the row of its first day is filed under that Sunday
C18_Witness ==
    /\ today = <<2024, 3, 8>>
    /\ end_date = <<2024, 3, 2>>
    /\ start_date = <<2024, 1, 21>>
    /\ Len(rows) = 1
    /\ WeekKeys = {<<2024, 1, 21>>}

(***************************************************************************)
(* The two one-week reports run by the batch driver:                       *)
(*   "campaign_performance"  src/campaign_performance.py main()            *)
(*   "landing_page"          src/landing_page.py main()                    *)
(* Each hands the whole response to its process_..._data function.         *)
(***************************************************************************)
\* src/campaign_performance.py:14
TOP_N_CHART == 10

\* src/campaign_performance.py:15
TOP_N_TABLE == 20

\* src/landing_page.py:13
LANDING_TOP_N_CHART == 15

\* src/landing_page.py:14
LANDING_TOP_N_TABLE == 20

\* src/campaign_performance.py:38 and src/landing_page.py:34 timedelta(days=6)
WEEK_DAYS == 6

\* src/campaign_performance.py:33-38; src/landing_page.py:31-34
ComputeWeekRange ==
    /\ pc = "start"
    /\ script \in {"campaign_performance", "landing_page"}
    /\ end_date' = EndDate(today)
    /\ start_date' = MinusDays(end_date', WEEK_DAYS)
    /\ pc' = "fetch"
    /\ UNCHANGED <<script, rows, pivoted_data, df, campaign_totals, top_campaign_names,
                   df_for_chart, df_for_table, error, output, today, summary_stats, driver>>

\* all sequences over S of length at most n
SeqsUpTo(S, n) == UNION {[1..k -> S] : k \in 0..n}

\* a row of the campaign performance request: (campaign, source/medium) with
\* the metric values (engagedSessions, keyEvents)
PerformanceRow(dims, metrics) == [dimension_values |-> dims, metric_values |-> metrics]

\* two campaigns with equal sessions, one without sessions, an excluded
\* campaign and a key-events value int() rejects
PerformanceRows ==
    {PerformanceRow(<<"Brand", "cpc">>, <<"2", "1">>),
     PerformanceRow(<<"Email", "cpc">>, <<"2", "0">>),
     PerformanceRow(<<"Promo", "cpc">>, <<"0", "0">>),
     PerformanceRow(<<"(direct)", "(none)">>, <<"1", "0">>),
     PerformanceRow(<<"Promo", "cpc">>, <<"1", "n/a">>)}

PerformanceResponses == SeqsUpTo(PerformanceRows, MaxRows)

\* excluded_campaigns of src/campaign_performance.py:58, excluded_values of
\* src/landing_page.py:56
SnapshotExcluded(s) ==
    IF s = "campaign_performance"
    THEN {"(direct)", "(organic)", "(referral)", "(not set)"}
    ELSE {"(not set)"}

\* the rows of the response the loop does not skip, in order
NotSkipped(s, response) ==
    LET Keep(row) == row.dimension_values[1] \notin SnapshotExcluded(s)
    IN  SelectSeq(response, Keep)

\* df['Key Events'] / df['Engaged Sessions'] with fillna(0), as the pair
\* <<numerator, denominator>>: 0/0 is NaN and becomes 0, n/0 is inf
KeyEventRate(key_events, engaged_sessions) ==
    IF engaged_sessions = 0
    THEN IF key_events = 0 THEN <<0, 1>> ELSE <<1, 0>>
    ELSE <<key_events, engaged_sessions>>

\* src/campaign_performance.py:112-116: the frame of report_data, before sorting
PerformanceFrame(report_data) ==
    [columns |-> <<"Engaged Sessions", "Key Events", "Key Event Rate">>,
     rows    |-> [i \in 1..Len(report_data) |->
                    LET sessions == ParseInt(report_data[i].metric_values[1])
                        events   == ParseInt(report_data[i].metric_values[2])
                    IN  FrameRow(report_data[i].dimension_values,
                                 [c \in {"Engaged Sessions", "Key Events", "Key Event Rate"} |->
                                     CASE c = "Engaged Sessions" -> sessions
                                       [] c = "Key Events" -> events
                                       [] c = "Key Event Rate" ->
                                            KeyEventRate(events, sessions)])]]

\* df.head(n)
HeadRows(frame, n) == [frame EXCEPT !.rows = Take(frame.rows, n)]

\* src/campaign_performance.py:66-70 with process_performance_data (86-121):
\* the loop over the whole response, the frame, the sort and the empty check
ProcessPerformanceData ==
    /\ pc = "process"
    /\ script = "campaign_performance"
    /\ \E response \in PerformanceResponses :
         LET report_data == NotSkipped(script, response)
             Bad(row) == \E i \in 1..2 : ~ValidMetricStr(row.metric_values[i])
         IN  /\ rows' = response
             /\ IF \E i \in 1..Len(report_data) : Bad(report_data[i])
                THEN /\ pc' = "raised"
                     /\ error' = "ValueError"
                     /\ UNCHANGED <<df, output>>
                ELSE IF report_data = <<>>
                     THEN /\ df' = EmptyFrame
                          /\ pc' = "exited"
                          /\ output' = Stdout(output, NoDataMessage(script))
                          /\ UNCHANGED error
                     ELSE /\ df' \in SortedFrames(PerformanceFrame(report_data),
                                                  "Engaged Sessions")
                          /\ pc' = "views"
                          /\ UNCHANGED <<error, output>>
    /\ SameInvocation
    /\ UNCHANGED <<script, pivoted_data, campaign_totals, top_campaign_names,
                   df_for_chart, df_for_table>>

\* src/campaign_performance.py:73-80
PerformanceViews ==
    /\ pc = "views"
    /\ script = "campaign_performance"
    /\ df_for_chart' = HeadRows(df, TOP_N_CHART)
    /\ df_for_table' = HeadRows(df, TOP_N_TABLE)
    /\ pc' = "write"
    /\ SameInvocation
    /\ UNCHANGED <<script, rows, pivoted_data, df, campaign_totals, top_campaign_names,
                   error, output>>

\* rows of the landing page request: (landingPage, channel group); two pages,
\* an excluded page and a value int() rejects
LandingRows ==
    {Row(<<"/", "Direct">>, "2"),
     Row(<<"/", "Paid Search">>, "1"),
     Row(<<"/pricing", "Direct">>, "3"),
     Row(<<"(not set)", "Direct">>, "1"),
     Row(<<"/", "Direct">>, "n/a")}

LandingResponses == SeqsUpTo(LandingRows, MaxRows)

\* lexicographic order of two-part keys, as groupby sorts a MultiIndex
KeyLess(a, b) == NameLess(a[1], b[1]) \/ (a[1] = b[1] /\ NameLess(a[2], b[2]))

RECURSIVE SortedKeys(_)
SortedKeys(S) ==
    IF S = {} THEN <<>>
    ELSE LET min == CHOOSE x \in S : \A y \in S : ~KeyLess(y, x)
         IN  <<min>> \o SortedKeys(S \ {min})

\* src/landing_page.py:105-106: pd.DataFrame(report_data)
\*     .groupby(['Landing Page', 'Channel']).sum()
LandingFrame(report_data) ==
    LET keys == SortedKeys({report_data[i].dimension_values : i \in 1..Len(report_data)})
        Of(k) == {i \in 1..Len(report_data) : report_data[i].dimension_values = k}
    IN  [columns |-> <<"Engaged Sessions">>,
         rows    |-> [r \in 1..Len(keys) |->
                        FrameRow(keys[r],
                                 [c \in {"Engaged Sessions"} |->
                                     SumOver([i \in Of(keys[r]) |->
                                                ParseInt(report_data[i].metric_value)],
                                             Of(keys[r]))])]]

\* src/landing_page.py:56-60 with process_landing_page_data (82-111)
ProcessLandingPageData ==
    /\ pc = "process"
    /\ script = "landing_page"
    /\ \E response \in LandingResponses :
         LET report_data == NotSkipped(script, response)
         IN  /\ rows' = response
             /\ IF \E i \in 1..Len(report_data) : ~ValidMetricStr(report_data[i].metric_value)
                THEN /\ pc' = "raised"
                     /\ error' = "ValueError"
                     /\ UNCHANGED <<df, output>>
                ELSE IF report_data = <<>>
                     THEN /\ df' = EmptyFrame
                          /\ pc' = "exited"
                          /\ output' = Stdout(output, NoDataMessage(script))
                          /\ UNCHANGED error
                     ELSE /\ \E order \in RankOrders(LandingFrame(report_data),
                                                     "Engaged Sessions") :
                                df' = ReindexLevel(LandingFrame(report_data), order)
                          /\ pc' = "views"
                          /\ UNCHANGED <<error, output>>
    /\ SameInvocation
    /\ UNCHANGED <<script, pivoted_data, campaign_totals, top_campaign_names,
                   df_for_chart, df_for_table>>

\* src/landing_page.py:64-70: page_totals and the two filtered views
LandingViews ==
    /\ pc = "views"
    /\ script = "landing_page"
    /\ \E page_totals \in RankOrders(df, "Engaged Sessions") :
         /\ df_for_chart' = FilterIsin(df, Range(Take(page_totals, LANDING_TOP_N_CHART)))
         /\ df_for_table' = FilterIsin(df, Range(Take(page_totals, LANDING_TOP_N_TABLE)))
    /\ pc' = "write"
    /\ SameInvocation
    /\ UNCHANGED <<script, rows, pivoted_data, df, campaign_totals, top_campaign_names,
                   error, output>>

\* the form fills report is not part of this source tree: a report module
\* like its siblings, whose import defines main() and whose main() writes its
\* file, raises on bad data or a failed request, or exits on an empty result
FormfillsMain ==
    /\ pc = "start"
    /\ script = "formfills"
    /\ \E outcome \in {"done", "raised", "exited"} :
         /\ pc' = outcome
         /\ error' = IF outcome = "raised" THEN FetchError ELSE ""
         /\ output' = [output EXCEPT !.written = (outcome = "done")]
    /\ SameInvocation
    /\ UNCHANGED <<script, rows, pivoted_data, df, campaign_totals, top_campaign_names,
                   df_for_chart, df_for_table>>

(***************************************************************************)
(* The batch driver src/run_all_reports.py                                 *)
(*   driver.phase  "import"     about to execute the import of module step *)
(*                 "importing"  module-level report code runs in an import *)
(*                 "announce"   about to print the "[step/5]" line         *)
(*                 "call"       about to call main() of report step        *)
(*                 "running"    main() of report step runs                 *)
(*                 "final"      about to print the closing line            *)
(*                 "finished"   run_all() returned                         *)
(*                 "aborted"    an exception left the driver               *)
(*   driver.log    the events so far, oldest first                         *)
(***************************************************************************)
\* the modules in the order of the import statements (lines 4-8), which is
\* also the order of the calls in run_all (lines 19-52)
Reports == <<"overview", "campaign", "campaign_performance", "landing_page", "formfills">>

\* src/campaign.py has its report code at module level: the import runs it
RunsAtImport(s) == s = "campaign"

\* src/campaign.py defines no main()
HasMain(s) == s # "campaign"

Event(e, r) == [event |-> e, report |-> r]

Logged(e, r) == Append(driver.log, Event(e, r))

\* the clock of a batch: Wed 2024-01-17
BatchDay == <<2024, 1, 17>>

\* rows of the weekly requests in a batch: a good row, and for the campaign
\* request an excluded campaign and a date strptime() rejects, for the
\* overview request a value int() rejects
DriverRows(s) ==
    IF s = "campaign"
    THEN {Row(<<"Brand", "cpc", <<2024, 1, 7>>>>, "1"),
          Row(<<"(direct)", "(none)", <<2024, 1, 7>>>>, "1"),
          Row(<<"Email", "cpc", <<2024, 2, 30>>>>, "1")}
    ELSE {Row(<<"Direct", <<2024, 1, 7>>>>, "1"),
          Row(<<"Direct", <<2024, 1, 7>>>>, "")}

\* the code of report s starts to run on fresh variables
StartReport(s) ==
    /\ script' = s
    /\ pc' = EntryPoint(s)
    /\ rows' = <<>>
    /\ pivoted_data' = <<>>
    /\ df' = EmptyFrame
    /\ campaign_totals' = <<>>
    /\ top_campaign_names' = <<>>
    /\ df_for_chart' = EmptyFrame
    /\ df_for_table' = EmptyFrame
    /\ error' = ""
    /\ output' = [stdout |-> <<>>, written |-> FALSE]
    /\ start_date' = NoDate
    /\ end_date' = NoDate
    /\ summary_stats' = <<>>
    /\ UNCHANGED today

\* no report code runs in this step of the driver
NoReportStep ==
    UNCHANGED <<script, pc, rows, pivoted_data, df, campaign_totals, top_campaign_names,
                df_for_chart, df_for_table, error, output,
                today, start_date, end_date, summary_stats>>

\* the report code has stopped: it ran to its end, raised, or called exit()
Ended == pc \in {"done", "raised", "exited"}

\* the driver moves on to the next report, or to the closing line
Proceed(log) ==
    IF driver.step < Len(Reports)
    THEN [phase |-> "announce", step |-> driver.step + 1, log |-> log]
    ELSE [phase |-> "final", step |-> driver.step, log |-> log]

\* src/run_all_reports.py:4-8: one import statement; line 59-60 follows the last
ImportModule ==
    /\ driver.phase = "import"
    /\ LET m == Reports[driver.step]
       IN  IF RunsAtImport(m)
           THEN /\ StartReport(m)
                /\ driver' = [driver EXCEPT !.phase = "importing",
                                            !.log = Logged("generate", m)]
           ELSE /\ NoReportStep
                /\ driver' = IF driver.step < Len(Reports)
                             THEN [driver EXCEPT !.step = @ + 1]
                             ELSE [driver EXCEPT !.phase = "announce", !.step = 1]

\* src/run_all_reports.py:5: the module-level code of the imported module
\* stops; an exception or SystemExit it raised leaves the import statement
\* and ends the driver
ImportEnds ==
    /\ driver.phase = "importing"
    /\ Ended
    /\ LET m == Reports[driver.step]
       IN  driver' =
             CASE pc = "done" ->
                    [driver EXCEPT !.phase = "import", !.step = @ + 1,
                                   !.log = Logged("returned", m)]
               [] pc = "raised" ->
                    [driver EXCEPT !.phase = "aborted", !.log = Logged("uncaught", m)]
               [] pc = "exited" ->
                    [driver EXCEPT !.phase = "aborted", !.log = Logged("no_data", m)]
    /\ NoReportStep

\* src/run_all_reports.py:20, 27, 34, 41, 48
Announce ==
    /\ driver.phase = "announce"
    /\ driver' = [driver EXCEPT !.phase = "call",
                                !.log = Logged("announce", Reports[driver.step])]
    /\ NoReportStep

\* src/run_all_reports.py:21-22, 28-31, 35-36, 42-43, 49-50: the call of
\* main(); a module without main() gives AttributeError, which the except
\* clause catches
CallMain ==
    /\ driver.phase = "call"
    /\ LET m == Reports[driver.step]
       IN  IF HasMain(m)
           THEN /\ StartReport(m)
                /\ driver' = [driver EXCEPT !.phase = "running",
                                            !.log = Logged("generate", m)]
           ELSE /\ NoReportStep
                /\ driver' = Proceed(Logged("no_main", m))

\* src/run_all_reports.py:23-24, 37-38, 44-45, 51-52: main() returns, or
\* raises an Exception that the except clause catches and prints, or raises
\* SystemExit (sys.exit()), which `except Exception` does not catch
MainEnds ==
    /\ driver.phase = "running"
    /\ Ended
    /\ LET m == Reports[driver.step]
       IN  driver' =
             CASE pc = "done" -> Proceed(Logged("returned", m))
               [] pc = "raised" -> Proceed(Logged("caught", m))
               [] pc = "exited" ->
                    [driver EXCEPT !.phase = "aborted", !.log = Logged("no_data", m)]
    /\ NoReportStep

\* src/run_all_reports.py:54-56
Finish ==
    /\ driver.phase = "final"
    /\ driver' = [driver EXCEPT !.phase = "finished",
                                !.log = Logged("processed", "all")]
    /\ NoReportStep

InitDriver ==
    /\ script = "run_all_reports"
    /\ pc = "idle"
    /\ today = BatchDay
    /\ start_date = NoDate
    /\ end_date = NoDate
    /\ summary_stats = <<>>
    /\ driver = [phase |-> "import", step |-> 1, log |-> <<>>]
    /\ rows = <<>>
    /\ pivoted_data = <<>>
    /\ df = EmptyFrame
    /\ campaign_totals = <<>>
    /\ top_campaign_names = <<>>
    /\ df_for_chart = EmptyFrame
    /\ df_for_table = EmptyFrame
    /\ error = ""
    /\ output = [stdout |-> <<>>, written |-> FALSE]

NextDriver ==
    \/ ImportModule
    \/ ImportEnds
    \/ Announce
    \/ CallMain
    \/ MainEnds
    \/ Finish
    \/ ComputeDateRange
    \/ ComputeWeekRange
    \/ RunReport
    \/ \E row \in DriverRows(script) : ConsumeRow(row)
    \/ EndOfRows
    \/ BuildFrame
    \/ SelectWindow
    \/ CollapseTopN
    \/ SortChannels
    \/ ChartView
    \/ AddTotal
    \/ FetchSummary
    \/ FetchMtd
    \/ ProcessPerformanceData
    \/ PerformanceViews
    \/ ProcessLandingPageData
    \/ LandingViews
    \/ FormfillsMain
    \/ WriteReport

SpecDriver == InitDriver /\ [][NextDriver]_vars

\* the driver has stopped
DriverStopped == driver.phase \in {"finished", "aborted"}

\* the event e of report r is in the log
Happened(e, r) == \E p \in 1..Len(driver.log) : driver.log[p] = Event(e, r)

\* the position of report r in the batch
StepOf(r) == CHOOSE k \in 1..Len(Reports) : Reports[k] = r

\* C11: when the driver has stopped, a report that ended in a fatal error,
\* caught or not, has not kept any of the other reports from being generated
C11_FailuresIsolated ==
    DriverStopped =>
        \A r \in Range(Reports) :
            (Happened("caught", r) \/ Happened("uncaught", r)) =>
                \A q \in Range(Reports) \ {r} : Happened("generate", q)

\* C14: when a report found no data, the driver does not stop before it has
\* run the reports that follow and printed its closing line
C14_NoDataStaysLocal ==
    DriverStopped =>
        \A r \in Range(Reports) :
            Happened("no_data", r) =>
                /\ driver.phase = "finished"
                /\ Happened("processed", "all")
                /\ \A k \in (StepOf(r) + 1)..Len(Reports) :
                     HasMain(Reports[k]) => Happened("generate", Reports[k])

\* C15: every generation of a report starts after the "[k/5]" line of that
\* report and after each report before it in the fixed order has returned
\* or failed, and no report is generated twice
C15_SequentialInAnnouncedOrder ==
    \A p \in 1..Len(driver.log) :
        driver.log[p].event = "generate" =>
            LET r == driver.log[p].report
            IN  /\ \E q \in 1..(p - 1) : driver.log[q] = Event("announce", r)
                /\ \A k \in 1..(StepOf(r) - 1) :
                     \E q \in 1..(p - 1) :
                        /\ driver.log[q].report = Reports[k]
                        /\ driver.log[q].event \in {"returned", "caught", "no_main"}
                /\ \A q \in 1..Len(driver.log) :
                     (q # p /\ driver.log[q].event = "generate") =>
                        driver.log[q].report # r

=============================================================================
